---------------------------- MODULE Spec2Model ----------------------------
(***************************************************************************)
(* Model of the tiling-and-clipping engine of annotation_manipulation      *)
(* (src/splitter.py): split_images_in_folder drives                        *)
(* split_image_and_annotations over the images of a folder; each image is  *)
(* cut into a grid of tiles and every polygon annotation is clipped        *)
(* against every tile.                                                     *)
(*                                                                         *)
(* Geometry is modelled on the integer pixel lattice: a polygon is a       *)
(* rectilinear region, held as the set of unit cells <<i, j>> (the closed  *)
(* square [i,i+1] x [j,j+1]) it covers.  Floats are exact rationals        *)
(* <<n, d>>; a coordinate written with six decimals is the integer number  *)
(* of millionths.  File names are sequences of character codes.            *)
(***************************************************************************)
EXTENDS Integers, Sequences, FiniteSets, TLC

VARIABLES
    input_dir,      \* the folder read: [hasImages, hasLabels, images, labels]
    tile_width,     \* argument tile_width
    tile_height,    \* argument tile_height
    pc,             \* split_images_in_folder: "start", "loop", "done", "returned", "raised"
    all_images,     \* the sorted list of image file names (splitter.py:156-161)
    img_idx,        \* position of the for loop of splitter.py:164 (1-based)
    epc,            \* split_image_and_annotations: "idle", "open", "parse", "grid", "image", "label", "return"
    image_path,     \* file name of the image being split
    img_width,      \* image.size[0]
    img_height,     \* image.size[1]
    base_name,      \* splitext(basename(image_path))[0]
    line_no,        \* index of the next label line to parse (1-based)
    annotations,    \* list of [class_id, polygon]
    row_count,
    col_count,
    row_idx,
    col_idx,
    exception,      \* the uncaught exception that ended the run, or "none"
    out_dirs,       \* directories created under output_dir
    out_images,     \* output_dir/images: set of file names
    out_labels,     \* output_dir/labels: file name -> list of written lines
    workers         \* parallel driver: worker id -> the frame of its call of
                    \* split_image_and_annotations (empty without a driver)

vars == <<input_dir, tile_width, tile_height, pc, all_images, img_idx, epc,
          image_path, img_width, img_height, base_name, line_no, annotations,
          row_count, col_count, row_idx, col_idx, exception,
          out_dirs, out_images, out_labels, workers>>

----------------------------------------------------------------------------
(* Bounds of the model *)

MaxW == 3
MaxH == 2
MaxTileW == 3
MaxTileH == 2
MaxLines == 2
MaxImages == 2

----------------------------------------------------------------------------
(* Strings: sequences of character codes *)

Chr == [dot |-> 46, underscore |-> 95, zero |-> 48, upperA |-> 65, upperZ |-> 90, toLower |-> 32]
Dot == Chr.dot
Underscore == Chr.underscore
Digit(d) == Chr.zero + d

Str_png == <<Dot, 112, 110, 103>>
Str_jpg == <<Dot, 106, 112, 103>>
Str_jpeg == <<Dot, 106, 112, 101, 103>>
Str_txt == <<Dot, 116, 120, 116>>

\* str.lower() on ASCII
Lower(s) == [k \in 1..Len(s) |-> IF s[k] >= Chr.upperA /\ s[k] <= Chr.upperZ THEN s[k] + Chr.toLower ELSE s[k]]

\* str.endswith(suffix)
EndsWith(s, suffix) ==
    /\ Len(s) >= Len(suffix)
    /\ SubSeq(s, Len(s) - Len(suffix) + 1, Len(s)) = suffix

\* str.startswith(prefix)
StartsWith(s, prefix) ==
    /\ Len(s) >= Len(prefix)
    /\ SubSeq(s, 1, Len(prefix)) = prefix

\* Python's order on str: lexicographic by code point, a proper prefix first
RECURSIVE LexLessFrom(_, _, _)
LexLessFrom(a, b, k) ==
    IF k > Len(b) THEN FALSE
    ELSE IF k > Len(a) THEN TRUE
    ELSE IF a[k] < b[k] THEN TRUE
    ELSE IF a[k] > b[k] THEN FALSE
    ELSE LexLessFrom(a, b, k + 1)

LexLess(a, b) == LexLessFrom(a, b, 1)

\* sorted(S) / list.sort(): the elements of S in increasing order
RECURSIVE Sorted(_)
Sorted(S) ==
    IF S = {} THEN <<>>
    ELSE LET m == CHOOSE x \in S : \A y \in S \ {x} : LexLess(x, y)
         IN <<m>> \o Sorted(S \ {m})

\* os.path.splitext(name)[0]: the name up to its last dot (a leading dot is no extension)
SplitExt(name) ==
    LET dots == {k \in 2..Len(name) : name[k] = Dot}
    IN IF dots = {} THEN name
       ELSE SubSeq(name, 1, (CHOOSE k \in dots : \A j \in dots : j <= k) - 1)

\* The decimal digits of n >= 0, most significant first
RECURSIVE Digits(_)
Digits(n) == IF n < 10 THEN <<Digit(n)>> ELSE Digits(n \div 10) \o <<Digit(n % 10)>>

\* Width of the zero padding of the format {:02d}
PadWidth == 2

\* Mutant: the indices are not padded (f"{row_idx}")
Fmt02d_Unpadded(n) == Digits(n)

\* f"{n:02d}": at least PadWidth digits, padded with zeros on the left
Fmt02d(n) ==
    LET ds == Digits(n)
    IN IF Len(ds) >= PadWidth THEN ds
       ELSE [k \in 1..(PadWidth - Len(ds)) |-> Digit(0)] \o ds

\* Mutant: the tile files are named by row and column only
TileName_NoBase(base, row, col, ext) ==
    Fmt02d(row) \o <<Underscore>> \o Fmt02d(col) \o ext

\* f"{base_name}_{(row_idx):02d}_{(col_idx):02d}" followed by the extension
TileName(base, row, col, ext) ==
    base \o <<Underscore>> \o Fmt02d(row) \o <<Underscore>> \o Fmt02d(col) \o ext

----------------------------------------------------------------------------
(* Geometry (shapely), on the pixel lattice *)

Min(a, b) == IF a < b THEN a ELSE b
Max(a, b) == IF a > b THEN a ELSE b
SetMin(S) == CHOOSE x \in S : \A y \in S : x <= y
SetMax(S) == CHOOSE x \in S : \A y \in S : x >= y

\* Polygon(points).buffer(0) for a simple rectilinear ring of lattice points:
\* the cells whose centre is inside the ring (crossing number of the ray to
\* the right of the centre with the ring's vertical edges).
Polygon(points) ==
    LET n == Len(points)
        nxt(k) == points[(k % n) + 1]
        xs == {points[k][1] : k \in 1..n}
        ys == {points[k][2] : k \in 1..n}
        crossings(i, j) ==
            {k \in 1..n :
                /\ points[k][1] = nxt(k)[1]
                /\ points[k][1] > i
                /\ Min(points[k][2], nxt(k)[2]) <= j
                /\ j < Max(points[k][2], nxt(k)[2])}
    IN IF n = 0 THEN {}
       ELSE {c \in (SetMin(xs)..(SetMax(xs) - 1)) \X (SetMin(ys)..(SetMax(ys) - 1)) :
                Cardinality(crossings(c[1], c[2])) % 2 = 1}

\* Polygon([(left, top), (right, top), (right, bottom), (left, bottom)])
TilePolygon(left, top, right, bottom) ==
    (left..(right - 1)) \X (top..(bottom - 1))

\* Whether the unit edge e = <<o, i, j>> lies in the closed region S: o = "h"
\* is the edge (i,j)-(i+1,j), o = "v" the edge (i,j)-(i,j+1)
EdgeIn(S, e) ==
    IF e[1] = "h" THEN <<e[2], e[3]>> \in S \/ <<e[2], e[3] - 1>> \in S
    ELSE <<e[2], e[3]>> \in S \/ <<e[2] - 1, e[3]>> \in S

\* Whether the lattice point p lies in the closed region S
PointIn(S, p) ==
    \E c \in {<<p[1], p[2]>>, <<p[1] - 1, p[2]>>, <<p[1], p[2] - 1>>, <<p[1] - 1, p[2] - 1>>} :
        c \in S

EdgesOf(S) ==
    UNION {{<<"h", c[1], c[2]>>, <<"h", c[1], c[2] + 1>>,
            <<"v", c[1], c[2]>>, <<"v", c[1] + 1, c[2]>>} : c \in S}

CornersOf(S) ==
    UNION {{<<c[1], c[2]>>, <<c[1] + 1, c[2]>>, <<c[1], c[2] + 1>>, <<c[1] + 1, c[2] + 1>>} : c \in S}

EndPoints(e) ==
    IF e[1] = "h" THEN {<<e[2], e[3]>>, <<e[2] + 1, e[3]>>}
    ELSE {<<e[2], e[3]>>, <<e[2], e[3] + 1>>}

\* Mutant: the polygon is not clipped against the tile
Intersection_NoClip(poly, tile) ==
    [area |-> poly, lines |-> {}, points |-> {}]

\* polygon.intersection(tile_polygon) of two closed regions: the cells in
\* both (area), and what the regions share outside the closure of that
\* area: unit edges (lines) and isolated lattice points (points).
Intersection(poly, tile) ==
    LET area == poly \cap tile
        lines == {e \in EdgesOf(poly) :
                     EdgeIn(tile, e) /\ ~EdgeIn(area, e)}
        ends == UNION {EndPoints(e) : e \in lines}
        points == {p \in CornersOf(poly) :
                      PointIn(tile, p) /\ ~PointIn(area, p) /\ p \notin ends}
    IN [area |-> area, lines |-> lines, points |-> points]

\* The cells 4-connected to the cells of `seen` within S
RECURSIVE Flood(_, _)
Flood(S, seen) ==
    LET more == {c \in S \ seen :
                    \E d \in seen : (c[1] - d[1]) * (c[1] - d[1]) + (c[2] - d[2]) * (c[2] - d[2]) = 1}
    IN IF more = {} THEN seen ELSE Flood(S, seen \cup more)

\* The topmost, then leftmost cell of S
FirstCell(S) ==
    CHOOSE c \in S : \A d \in S : c[2] < d[2] \/ (c[2] = d[2] /\ c[1] <= d[1])

\* The polygons of a region (its connected components), as .geoms lists them
RECURSIVE Geoms(_)
Geoms(S) ==
    IF S = {} THEN <<>>
    ELSE LET comp == Flood(S, {FirstCell(S)})
         IN <<comp>> \o Geoms(S \ comp)

\* clipped_poly.is_empty
IsEmpty(g) == g.area = {} /\ g.lines = {} /\ g.points = {}

\* clipped_poly.geom_type (every lineal result is named LineString, every
\* puntal one Point: the code treats them alike)
GeomType(g) ==
    IF g.area # {} /\ g.lines = {} /\ g.points = {}
        THEN (IF Len(Geoms(g.area)) = 1 THEN "Polygon" ELSE "MultiPolygon")
    ELSE IF g.area = {} /\ g.lines # {} /\ g.points = {} THEN "LineString"
    ELSE IF g.area = {} /\ g.lines = {} /\ g.points # {} THEN "Point"
    ELSE IF g.area = {} /\ g.lines = {} /\ g.points = {} THEN "Polygon"
    ELSE "GeometryCollection"

\* Mutant: the offsets are added (xoff=shift_x, yoff=shift_y)
shift_polygon_Add(polygon, shift_x, shift_y) ==
    {<<c[1] + shift_x, c[2] + shift_y>> : c \in polygon}

\* _shift_polygon: translate(polygon, xoff=-shift_x, yoff=-shift_y)
shift_polygon(polygon, shift_x, shift_y) ==
    {<<c[1] - shift_x, c[2] - shift_y>> : c \in polygon}

\* The boundary of a connected region S walked from the top-left corner of
\* its first cell with the region on the right hand: directions 0 = +x,
\* 1 = +y, 2 = -x, 3 = -y.  Step(p, d) holds when the unit edge leaving p in
\* direction d is on the boundary with S on its right.
DirX(d) == CASE d = 0 -> 1 [] d = 2 -> -1 [] OTHER -> 0
DirY(d) == CASE d = 1 -> 1 [] d = 3 -> -1 [] OTHER -> 0

OnBoundary(S, p, d) ==
    LET inside == CASE d = 0 -> <<p[1], p[2]>>
                    [] d = 1 -> <<p[1] - 1, p[2]>>
                    [] d = 2 -> <<p[1] - 1, p[2] - 1>>
                    [] OTHER -> <<p[1], p[2] - 1>>
        outside == CASE d = 0 -> <<p[1], p[2] - 1>>
                     [] d = 1 -> <<p[1], p[2]>>
                     [] d = 2 -> <<p[1] - 1, p[2]>>
                     [] OTHER -> <<p[1] - 1, p[2] - 1>>
    IN inside \in S /\ outside \notin S

RECURSIVE Walk(_, _, _, _, _)
Walk(S, start, p, d, acc) ==
    LET q == <<p[1] + DirX(d), p[2] + DirY(d)>>
        \* at q: turn right if the boundary does, else go on, else turn left
        nd == IF OnBoundary(S, q, (d + 1) % 4) THEN (d + 1) % 4
              ELSE IF OnBoundary(S, q, d) THEN d
              ELSE (d + 3) % 4
    IN IF q = start THEN acc
       ELSE Walk(S, start, q, nd, IF nd = d THEN acc ELSE Append(acc, q))

\* list(poly.exterior.coords)[:-1]: the vertices of the exterior ring, the
\* closing duplicate dropped
ExteriorCoords(S) ==
    LET c == FirstCell(S)
        start == <<c[1], c[2]>>
    IN Walk(S, start, start, 0, <<start>>)

----------------------------------------------------------------------------
(* Label files: a line is its list of whitespace-separated tokens; a token  *)
(* is [txt, num], num the rational <<n, d>> that float(token) yields, or    *)
(* <<>> when float(token) raises ValueError.                                *)

NumTok(n, d) == [txt |-> "num", num |-> <<n, d>>]
ClassTok(cls) == [txt |-> cls, num |-> <<0, 1>>]
BadTok == [txt |-> "abc", num |-> <<>>]

\* The line "cls x1 y1 x2 y2 ..." of the polygon `points` (absolute pixels),
\* normalized by the size W x H of its image
RECURSIVE CoordToks(_, _, _)
CoordToks(points, W, H) ==
    IF points = <<>> THEN <<>>
    ELSE <<NumTok(Head(points)[1], W), NumTok(Head(points)[2], H)>>
            \o CoordToks(Tail(points), W, H)

LineOf(cls, points, W, H) == <<ClassTok(cls)>> \o CoordToks(points, W, H)

\* len(items) < 6 is skipped (splitter.py:45)
MinItems == 6

\* Number of decimals of the format {:.6f}
Decimals == 6

\* What the body of the loop over the lines does with one line
\* (splitter.py:44-65): "skip" (continue), "record" (append), or the
\* exception it raises: float() of a non-numeric token raises ValueError,
\* coords[i + 1] past an odd number of coordinates raises IndexError.
ParseOutcome(items) ==
    IF Len(items) < MinItems THEN "skip"
    ELSE IF \E k \in 2..Len(items) : items[k].num = <<>> THEN "ValueError"
    ELSE IF (Len(items) - 1) % 2 = 1 THEN "IndexError"
    ELSE "record"

\* coords[i] * img_width for the rational coords[i] (exact on the lattice)
Scale(num, size) == (num[1] * size) \div num[2]

\* points = [(coords[i] * img_width, coords[i + 1] * img_height) ...]
Points(items, W, H) ==
    [k \in 1..((Len(items) - 1) \div 2) |->
        <<Scale(items[2 * k].num, W), Scale(items[2 * k + 1].num, H)>>]

\* The record appended for a well-formed line: (class_id, polygon)
ParseRecord(items, W, H) ==
    [class_id |-> items[1].txt, polygon |-> Polygon(Points(items, W, H))]

\* What opening the label file leads to: parsing its lines, or, the file
\* missing, FileNotFoundError caught and the tiles generated with no
\* annotation (splitter.py:41-42, 66-68)
OpenLabel_Uncaught(exists) == IF exists THEN "parse" ELSE "FileNotFoundError"

OpenLabelNext(exists) == IF exists THEN "parse" ELSE "grid"

----------------------------------------------------------------------------
(* The tile grid *)

\* Mutant: the grid counts are rounded down
Ceil_Floor(a, b) == a \div b

\* math.ceil(a / b) for positive integers
Ceil(a, b) == (a + b - 1) \div b

\* tile_left, tile_top, tile_right, tile_bottom of cell (row, col)
\* (splitter.py:76-79)
TileRect(row, col, tw, th, W, H) ==
    [left |-> col * tw,
     top |-> row * th,
     right |-> Min(col * tw + tw, W),
     bottom |-> Min(row * th + th, H)]

\* Mutant: MultiPolygon results are dropped like the other collections
Fragments_PolygonOnly(g) ==
    IF ~IsEmpty(g) /\ GeomType(g) = "Polygon" THEN <<g.area>> ELSE <<>>

\* The polygons kept of one intersection (splitter.py:99-108): each polygon
\* of a MultiPolygon, the polygon of a Polygon, nothing of anything else
Fragments(g) ==
    IF ~IsEmpty(g)
    THEN IF GeomType(g) = "MultiPolygon" THEN Geoms(g.area)
         ELSE IF GeomType(g) = "Polygon" THEN <<g.area>>
         ELSE <<>>
    ELSE <<>>

\* clipped_annotations of one tile (splitter.py:93-108)
RECURSIVE ClippedAnnotations(_, _)
ClippedAnnotations(annots, t) ==
    IF annots = <<>> THEN <<>>
    ELSE LET a == Head(annots)
             g == Intersection(a.polygon, TilePolygon(t.left, t.top, t.right, t.bottom))
             fr == Fragments(g)
             shifted == [k \in 1..Len(fr) |->
                            [class_id |-> a.class_id,
                             polygon |-> shift_polygon(fr[k], t.left, t.top)]]
         IN SelectSeq(shifted, LAMBDA s : s.polygon # {})
                \o ClippedAnnotations(Tail(annots), t)

\* Mutant: the nominal tile size is the denominator (as split_annotations.py:102)
NormExtent_Nominal(t) == <<tile_width, tile_height>>

\* The denominators of the normalization: (tile_right - tile_left,
\* tile_bottom - tile_top) (splitter.py:124)
NormExtent(t) == <<t.right - t.left, t.bottom - t.top>>

\* f"{(p / ext):.6f}" as a number of millionths, for p >= 0
Fmt6(p, ext) == (2 * p * 10^Decimals + ext) \div (2 * ext)

\* The lines written to the label file of a tile (splitter.py:121-127)
LabelLines(clipped, t) ==
    [k \in 1..Len(clipped) |->
        LET coords == ExteriorCoords(clipped[k].polygon)
        IN [cls_id |-> clipped[k].class_id,
            coords |-> [v \in 1..Len(coords) |->
                           <<Fmt6(coords[v][1], NormExtent(t)[1]),
                             Fmt6(coords[v][2], NormExtent(t)[2])>>]]]

\* Mutant: a tile is saved only when an annotation survives (as
\* split_annotations.py:90)
SavesTile_IfAnnotated(clipped) == clipped # <<>>

\* 6) Always save tile image & label (even if empty) (splitter.py:110-119)
SavesTile(clipped) == TRUE

----------------------------------------------------------------------------
(* Inputs *)

\* Annotation polygons of the inputs, in absolute pixels: a rectangle that
\* starts above the image and may end right of it, and a U whose arms a
\* tile row can cut apart
RingR == <<<<1, -1>>, <<3, -1>>, <<3, 1>>, <<1, 1>>>>
RingU == <<<<0, 0>>, <<1, 0>>, <<1, 2>>, <<2, 2>>, <<2, 0>>, <<3, 0>>, <<3, 3>>, <<0, 3>>>>

\* A line of 3 tokens, a line of 6 tokens (class id and 5 numbers) and a
\* line whose second coordinate is not a number
ShortLine == <<ClassTok("0"), NumTok(0, 1), NumTok(1, 1)>>
SixLine(W, H) == SubSeq(LineOf("0", RingR, W, H), 1, 6)
BadLine(W, H) == [LineOf("0", RingR, W, H) EXCEPT ![3] = BadTok]

SampleLines(W, H) ==
    {LineOf("0", RingR, W, H), LineOf("1", RingU, W, H),
     ShortLine, SixLine(W, H), BadLine(W, H)}

\* The label files of at most n lines
LabelFiles(W, H, n) == UNION {[1..k -> SampleLines(W, H)] : k \in 0..n}

Name_a_png == <<97>> \o Str_png
Name_b_JPG == <<98, Dot, 74, 80, 71>>
Name_c_jpeg == <<99>> \o Str_jpeg
Name_notes_txt == <<110, 111, 116, 101, 115>> \o Str_txt
BatchNames == <<Name_a_png, Name_b_JPG, Name_c_jpeg>>

NoLabels == [b \in {} |-> <<>>]

\* The label files of the images of a batch
BatchFiles(W, H) ==
    {<<>>,
     <<LineOf("0", RingR, W, H)>>,
     <<ShortLine, LineOf("0", RingR, W, H)>>,
     <<SixLine(W, H)>>,
     <<LineOf("0", RingR, W, H), BadLine(W, H)>>}

Idle ==
    /\ pc = "start"
    /\ all_images = <<>>
    /\ img_idx = 0
    /\ epc = "idle"
    /\ image_path = <<>>
    /\ img_width = 0
    /\ img_height = 0
    /\ base_name = <<>>
    /\ line_no = 0
    /\ annotations = <<>>
    /\ row_count = 0
    /\ col_count = 0
    /\ row_idx = 0
    /\ col_idx = 0
    /\ exception = "none"
    /\ out_dirs = {}
    /\ out_images = [n \in {} |-> <<>>]
    /\ out_labels = [n \in {} |-> <<>>]
    /\ workers = <<>>

\* A folder of one image, of any size and with any label file or none
InitSingle ==
    /\ tile_width \in 1..MaxTileW
    /\ tile_height \in 1..MaxTileH
    /\ \E W \in 1..MaxW, H \in 1..MaxH :
          \E labels \in {NoLabels} \cup
                {(SplitExt(Name_a_png) :> f) : f \in LabelFiles(W, H, MaxLines)} :
             input_dir = [hasImages |-> TRUE, hasLabels |-> TRUE,
                          images |-> (Name_a_png :> <<W, H>>),
                          labels |-> labels]
    /\ Idle

\* A folder of several 2 x 1 images and a file that is no image, each
\* image with one of the batch label files or none, cut into 1 x 1 tiles
InitBatch ==
    /\ tile_width = 1
    /\ tile_height = 1
    /\ \E k \in 2..MaxImages :
          LET names == {BatchNames[i] : i \in 1..k}
              bases == {SplitExt(n) : n \in names}
          IN \E labelled \in SUBSET bases :
                \E labels \in [labelled -> BatchFiles(2, 1)] :
                   input_dir = [hasImages |-> TRUE, hasLabels |-> TRUE,
                                images |-> [n \in names \cup {Name_notes_txt} |-> <<2, 1>>],
                                labels |-> labels]
    /\ Idle

\* A folder without images/ or labels/, or with no image in images/
InitFatal ==
    /\ tile_width = 1
    /\ tile_height = 1
    /\ \E hi \in BOOLEAN, hl \in BOOLEAN :
          input_dir = [hasImages |-> hi, hasLabels |-> hl,
                       images |-> (Name_notes_txt :> <<1, 1>>),
                       labels |-> NoLabels]
    /\ Idle

Init == InitSingle \/ InitBatch \/ InitFatal

----------------------------------------------------------------------------
(* split_images_in_folder *)

engineVars == <<epc, image_path, img_width, img_height, base_name, line_no,
                annotations, row_count, col_count, row_idx, col_idx>>
outVars == <<out_dirs, out_images, out_labels>>
argVars == <<input_dir, tile_width, tile_height>>

valid_exts == {Str_png, Str_jpg, Str_jpeg}

\* [f for f in os.listdir(images_dir) if f.lower().endswith(valid_exts)]
ValidImages(listing) ==
    {f \in listing : \E ext \in valid_exts : EndsWith(Lower(f), ext)}

\* splitter.py:145-162: the checks of the folder, the sorted list of images
FolderStart ==
    /\ pc = "start"
    /\ IF ~input_dir.hasImages \/ ~input_dir.hasLabels
          \/ ValidImages(DOMAIN input_dir.images) = {}
       THEN /\ pc' = "returned"
            /\ UNCHANGED <<all_images, img_idx, out_dirs>>
       ELSE /\ all_images' = Sorted(ValidImages(DOMAIN input_dir.images))
            /\ out_dirs' = out_dirs \cup {"output_dir"}
            /\ img_idx' = 1
            /\ pc' = "loop"
    /\ UNCHANGED <<argVars, workers, engineVars, exception, out_images, out_labels>>

\* splitter.py:164-175 and 26-37: the call for the next image, up to
\* base_name
CallSplit ==
    /\ pc = "loop"
    /\ epc = "idle"
    /\ img_idx <= Len(all_images)
    /\ image_path' = all_images[img_idx]
    /\ out_dirs' = out_dirs \cup {"output_dir/images", "output_dir/labels"}
    /\ img_width' = input_dir.images[all_images[img_idx]][1]
    /\ img_height' = input_dir.images[all_images[img_idx]][2]
    /\ base_name' = SplitExt(all_images[img_idx])
    /\ annotations' = <<>>
    /\ line_no' = 1
    /\ epc' = "open"
    /\ UNCHANGED <<argVars, workers, pc, all_images, img_idx, row_count, col_count,
                   row_idx, col_idx, exception, out_images, out_labels>>

\* The exception `e` leaves split_image_and_annotations and
\* split_images_in_folder, which catch nothing else
Raise(e) ==
    /\ exception' = e
    /\ epc' = "raised"
    /\ pc' = "raised"

\* splitter.py:41-42, 66-68: open(label_path)
OpenLabel ==
    /\ epc = "open"
    /\ LET next == OpenLabelNext(base_name \in DOMAIN input_dir.labels)
       IN IF next \in {"parse", "grid"}
          THEN epc' = next /\ UNCHANGED <<pc, exception>>
          ELSE Raise(next)
    /\ UNCHANGED <<argVars, workers, all_images, img_idx, image_path, img_width,
                   img_height, base_name, line_no, annotations, row_count,
                   col_count, row_idx, col_idx, outVars>>

\* splitter.py:43-65: one line of the label file
ParseLine ==
    /\ epc = "parse"
    /\ line_no <= Len(input_dir.labels[base_name])
    /\ LET items == input_dir.labels[base_name][line_no]
           outcome == ParseOutcome(items)
       IN CASE outcome = "skip" ->
                 /\ line_no' = line_no + 1
                 /\ UNCHANGED <<annotations, epc, pc, exception>>
            [] outcome = "record" ->
                 /\ annotations' = Append(annotations,
                                          ParseRecord(items, img_width, img_height))
                 /\ line_no' = line_no + 1
                 /\ UNCHANGED <<epc, pc, exception>>
            [] OTHER ->
                 /\ Raise(outcome)
                 /\ UNCHANGED <<annotations, line_no>>
    /\ UNCHANGED <<argVars, workers, all_images, img_idx, image_path, img_width,
                   img_height, base_name, row_count, col_count, row_idx,
                   col_idx, outVars>>

\* The end of the label file
EndParse ==
    /\ epc = "parse"
    /\ line_no > Len(input_dir.labels[base_name])
    /\ epc' = "grid"
    /\ UNCHANGED <<argVars, workers, pc, all_images, img_idx, image_path, img_width,
                   img_height, base_name, line_no, annotations, row_count,
                   col_count, row_idx, col_idx, exception, outVars>>

\* splitter.py:70-75: the grid and the first cell
GenerateTiles ==
    /\ epc = "grid"
    /\ row_count' = Ceil(img_height, tile_height)
    /\ col_count' = Ceil(img_width, tile_width)
    /\ row_idx' = 0
    /\ col_idx' = 0
    /\ epc' = IF Ceil(img_height, tile_height) = 0 \/ Ceil(img_width, tile_width) = 0
              THEN "return" ELSE "image"
    /\ UNCHANGED <<argVars, workers, pc, all_images, img_idx, image_path, img_width,
                   img_height, base_name, line_no, annotations, exception, outVars>>

\* The tile of the current cell and what is kept of the annotations in it
CurTile == TileRect(row_idx, col_idx, tile_width, tile_height, img_width, img_height)
CurClipped == ClippedAnnotations(annotations, CurTile)

\* splitter.py:76-116: crop the tile, clip the annotations, save the image
SaveTileImage ==
    /\ epc = "image"
    /\ out_images' =
          IF SavesTile(CurClipped)
          THEN (TileName(base_name, row_idx, col_idx, Str_jpg) :>
                   [image |-> image_path,
                    box |-> <<CurTile.left, CurTile.top, CurTile.right, CurTile.bottom>>])
               @@ out_images
          ELSE out_images
    /\ epc' = "label"
    /\ UNCHANGED <<argVars, workers, pc, all_images, img_idx, image_path, img_width,
                   img_height, base_name, line_no, annotations, row_count,
                   col_count, row_idx, col_idx, exception, out_dirs, out_labels>>

\* splitter.py:118-127 and the step of the loops of 74-75: write the label
\* file of the tile, go to the next cell
WriteTileLabel ==
    /\ epc = "label"
    /\ out_labels' =
          IF SavesTile(CurClipped)
          THEN (TileName(base_name, row_idx, col_idx, Str_txt) :>
                   LabelLines(CurClipped, CurTile)) @@ out_labels
          ELSE out_labels
    /\ IF col_idx + 1 < col_count
       THEN col_idx' = col_idx + 1 /\ UNCHANGED row_idx /\ epc' = "image"
       ELSE IF row_idx + 1 < row_count
       THEN col_idx' = 0 /\ row_idx' = row_idx + 1 /\ epc' = "image"
       ELSE UNCHANGED <<row_idx, col_idx>> /\ epc' = "return"
    /\ UNCHANGED <<argVars, workers, pc, all_images, img_idx, image_path, img_width,
                   img_height, base_name, line_no, annotations, row_count,
                   col_count, exception, out_dirs, out_images>>

\* split_image_and_annotations returns; the loop of splitter.py:164 goes on
ReturnSplit ==
    /\ epc = "return"
    /\ epc' = "idle"
    /\ img_idx' = img_idx + 1
    /\ UNCHANGED <<argVars, workers, pc, all_images, image_path, img_width, img_height,
                   base_name, line_no, annotations, row_count, col_count,
                   row_idx, col_idx, exception, outVars>>

\* The loop of splitter.py:164 is over
FolderDone ==
    /\ pc = "loop"
    /\ epc = "idle"
    /\ img_idx > Len(all_images)
    /\ pc' = "done"
    /\ UNCHANGED <<argVars, workers, all_images, img_idx, engineVars, exception, outVars>>

Next ==
    \/ FolderStart
    \/ CallSplit
    \/ OpenLabel
    \/ ParseLine
    \/ EndParse
    \/ GenerateTiles
    \/ SaveTileImage
    \/ WriteTileLabel
    \/ ReturnSplit
    \/ FolderDone

Spec == Init /\ [][Next]_vars

----------------------------------------------------------------------------
(* Viewer: display_split_annotations.py *)

\* TileViewer.__init__: sorted(f for f in os.listdir(tile_image_dir)
\*     if f.endswith(".jpg") and f.startswith(image_base + "_"))
all_tile_images(image_base) ==
    Sorted({f \in DOMAIN out_images :
               EndsWith(f, Str_jpg) /\ StartsWith(f, image_base \o <<Underscore>>)})

\* if len(items) < 6: continue (display_split_annotations.py:106)
ViewerMinItems == 6

\* TileViewer.load_annotations on the lines of a tile label file: the
\* lines of fewer than ViewerMinItems tokens are skipped, every pair of
\* coordinates (in millionths) becomes
\* (int(x * self.tile_width), int(y * self.tile_height))
load_annotations(lines) ==
    LET kept == SelectSeq(lines, LAMBDA l : 1 + 2 * Len(l.coords) >= ViewerMinItems)
    IN [k \in 1..Len(kept) |->
           [class_id |-> kept[k].cls_id,
            points |-> [v \in 1..Len(kept[k].coords) |->
                           <<(kept[k].coords[v][1] * tile_width) \div 10^Decimals,
                             (kept[k].coords[v][2] * tile_height) \div 10^Decimals>>]]]

----------------------------------------------------------------------------
(* Properties *)

\* The grid cells of a W x H image, stated without the code's counts: row r
\* exists when it starts inside the image
GridCells(W, H) ==
    {rc \in (0..(H - 1)) \X (0..(W - 1)) : rc[1] * tile_height < H /\ rc[2] * tile_width < W}

\* The rectangle of cell rc, as the specification gives it
CellRect(rc, W, H) ==
    [left |-> rc[2] * tile_width,
     top |-> rc[1] * tile_height,
     right |-> IF rc[2] * tile_width + tile_width < W THEN rc[2] * tile_width + tile_width ELSE W,
     bottom |-> IF rc[1] * tile_height + tile_height < H THEN rc[1] * tile_height + tile_height ELSE H]

\* A two-digit, zero-padded index below 100
TwoDigits(n) == <<Digit(n \div 10), Digit(n % 10)>>

\* The name of the file of cell rc of the image `base`
CellName(base, rc, ext) ==
    base \o <<Underscore>> \o TwoDigits(rc[1]) \o <<Underscore>> \o TwoDigits(rc[2]) \o ext

\* The grid of the current image has been computed
InTiles == epc \in {"image", "label", "return"}

\* The cells of the current image whose label file has been written
LabelledCells ==
    {rc \in GridCells(img_width, img_height) :
        \/ epc = "return"
        \/ InTiles /\ rc[1] * col_count + rc[2] < row_idx * col_count + col_idx}

\* The cells of the current image whose tile image has been saved
SavedCells ==
    LabelledCells \cup
        (IF epc = "label" THEN {<<row_idx, col_idx>>} ELSE {})

\* Both files of every cell of the image file `name` are in the output
TilesComplete(name) ==
    \A rc \in GridCells(input_dir.images[name][1], input_dir.images[name][2]) :
        /\ CellName(SplitExt(name), rc, Str_jpg) \in DOMAIN out_images
        /\ CellName(SplitExt(name), rc, Str_txt) \in DOMAIN out_labels

\* C1 (coverage): once the grid of an image is computed, the rectangles
\* [left,right) x [top,bottom) of its row_count x col_count cells partition
\* [0,W) x [0,H): every pixel lies in exactly one of them, none is empty,
\* none leaves the image, none is wider than tile_width or taller than
\* tile_height.
C1_Coverage ==
    InTiles =>
        LET cells == (0..(row_count - 1)) \X (0..(col_count - 1))
            rect(rc) == TileRect(rc[1], rc[2], tile_width, tile_height, img_width, img_height)
        IN /\ \A x \in 0..(img_width - 1), y \in 0..(img_height - 1) :
                 Cardinality({rc \in cells :
                                 /\ rect(rc).left <= x /\ x < rect(rc).right
                                 /\ rect(rc).top <= y /\ y < rect(rc).bottom}) = 1
           /\ \A rc \in cells :
                 /\ 0 <= rect(rc).left /\ rect(rc).left < rect(rc).right
                 /\ rect(rc).right <= img_width
                 /\ 0 <= rect(rc).top /\ rect(rc).top < rect(rc).bottom
                 /\ rect(rc).bottom <= img_height
                 /\ rect(rc).right - rect(rc).left <= tile_width
                 /\ rect(rc).bottom - rect(rc).top <= tile_height

\* A grid of two columns whose last column is narrower than tile_width and
\* whose row is shorter than tile_height
C1_Witness ==
    /\ InTiles
    /\ col_count > 1
    /\ img_width % tile_width # 0
    /\ img_height % tile_height # 0

\* C2 (count and pairing): when split_image_and_annotations is through with
\* an image, the output holds exactly ceil(H/th) * ceil(W/tw) tile images of
\* it and as many label files, one pair per grid cell, and the label file
\* of a cell in which no fragment survives is empty.
C2_CountAndPairing ==
    epc = "return" =>
        LET cells == GridCells(img_width, img_height)
            R == CHOOSE n \in 1..img_height :
                    (n - 1) * tile_height < img_height /\ img_height <= n * tile_height
            C == CHOOSE n \in 1..img_width :
                    (n - 1) * tile_width < img_width /\ img_width <= n * tile_width
            imgs == {n \in DOMAIN out_images : out_images[n].image = image_path}
            lbls == {n \in DOMAIN out_labels : StartsWith(n, base_name \o <<Underscore>>)}
        IN /\ Cardinality(imgs) = R * C
           /\ Cardinality(lbls) = R * C
           /\ imgs = {CellName(base_name, rc, Str_jpg) : rc \in cells}
           /\ lbls = {CellName(base_name, rc, Str_txt) : rc \in cells}
           /\ \A rc \in cells :
                 (\A k \in 1..Len(annotations) :
                     annotations[k].polygon \cap
                        TilePolygon(CellRect(rc, img_width, img_height).left,
                                    CellRect(rc, img_width, img_height).top,
                                    CellRect(rc, img_width, img_height).right,
                                    CellRect(rc, img_width, img_height).bottom) = {})
                 => out_labels[CellName(base_name, rc, Str_txt)] = <<>>

\* An image with annotations is through, one of its cells has an empty
\* label file and another a label file with a line
C2_Witness ==
    /\ epc = "return"
    /\ annotations # <<>>
    /\ \E n \in DOMAIN out_labels : out_labels[n] = <<>>
    /\ \E n \in DOMAIN out_labels : out_labels[n] # <<>>

\* C3 (missing label file): an image whose label file does not exist is
\* split with no annotation and no exception, and when the call is through
\* every cell of it has its tile image and an empty label file.
C3_MissingLabel ==
    /\ exception # "FileNotFoundError"
    /\ (epc \notin {"idle", "open"} /\ base_name \notin DOMAIN input_dir.labels) =>
          /\ epc \in {"grid", "image", "label", "return"}
          /\ annotations = <<>>
          /\ epc = "return" =>
                /\ TilesComplete(image_path)
                /\ \A rc \in GridCells(img_width, img_height) :
                      out_labels[CellName(base_name, rc, Str_txt)] = <<>>
    /\ \A k \in 1..Len(all_images) :
          (k < img_idx /\ SplitExt(all_images[k]) \notin DOMAIN input_dir.labels)
             => TilesComplete(all_images[k])

\* The call for an image without label file is through, with several tiles
C3_Witness ==
    /\ epc = "return"
    /\ base_name \notin DOMAIN input_dir.labels
    /\ Cardinality(DOMAIN out_labels) > 1

\* C4 (too-short line), as claimed: a line of fewer than 7 tokens is
\* skipped, produces no record and does not end the parsing of its file.
C4_ShortLineSkipped ==
    (epc # "idle" /\ base_name \in DOMAIN input_dir.labels) =>
        LET lines == input_dir.labels[base_name]
        IN /\ exception # "none" => Len(lines[line_no]) >= 7
           /\ Len(annotations) <=
                 Cardinality({k \in 1..Len(lines) : k < line_no /\ Len(lines[k]) >= 7})

\* C5 (non-numeric coordinate), as claimed: a line with a coordinate token
\* that is not a number is skipped alone; it never ends the parsing of its
\* file with an exception.
C5_BadTokenSkipsLineOnly ==
    (epc = "raised" /\ base_name \in DOMAIN input_dir.labels) =>
        \A k \in 2..Len(input_dir.labels[base_name][line_no]) :
            input_dir.labels[base_name][line_no][k].num # <<>>

\* C6 (batch isolation), as claimed: when the run over a folder has ended,
\* every image other than one with a missing or malformed label file (and
\* so every image of the batch) has all its tile image/label pairs.
C6_BatchIsolation ==
    pc \in {"done", "raised"} =>
        \A k \in 1..Len(all_images) :
            (pc = "done" \/ all_images[k] # image_path) => TilesComplete(all_images[k])

\* The fragments kept of the annotations in the rectangle t, in absolute
\* pixel coordinates, in the order of the records
RECURSIVE AbsFragments(_, _)
AbsFragments(annots, t) ==
    IF annots = <<>> THEN <<>>
    ELSE LET fr == Fragments(Intersection(Head(annots).polygon,
                                          TilePolygon(t.left, t.top, t.right, t.bottom)))
         IN [k \in 1..Len(fr) |-> [class_id |-> Head(annots).class_id, polygon |-> fr[k]]]
               \o AbsFragments(Tail(annots), t)

\* w millionths is p / ext written with six decimals
IsRounded(w, p, ext) ==
    /\ 2 * (w * ext - p * 10^Decimals) <= ext
    /\ 2 * (p * 10^Decimals - w * ext) <= ext

\* The label file of cell rc of the current image
LabelOf(rc) == out_labels[CellName(base_name, rc, Str_txt)]

\* C7 (normalization by the actual extent): every vertex written to the
\* label file of a tile is ((X - left) / (right - left), (Y - top) /
\* (bottom - top)), to six decimals, for the vertex (X, Y) of the clipped
\* fragment in absolute pixels, the denominators being the actual size of
\* the tile, also in a last row or column smaller than the nominal size.
C7_NormalizedByActualExtent ==
    \A rc \in LabelledCells :
        LET t == CellRect(rc, img_width, img_height)
            frs == AbsFragments(annotations, t)
        IN /\ Len(LabelOf(rc)) = Len(frs)
           /\ \A k \in 1..Len(frs) :
                 LET ring == ExteriorCoords(frs[k].polygon)
                     written == LabelOf(rc)[k].coords
                 IN /\ Len(written) = Len(ring)
                    /\ \A v \in 1..Len(ring) :
                          /\ IsRounded(written[v][1], ring[v][1] - t.left, t.right - t.left)
                          /\ IsRounded(written[v][2], ring[v][2] - t.top, t.bottom - t.top)

\* A fragment is written in a tile that is narrower and shorter than the
\* nominal tile and does not start at the origin
C7_Witness ==
    \E rc \in LabelledCells :
        LET t == CellRect(rc, img_width, img_height)
        IN /\ t.right - t.left < tile_width
           /\ t.bottom - t.top < tile_height
           /\ t.left > 0
           /\ LabelOf(rc) # <<>>

\* C8 (output range): every coordinate written to a label file lies in
\* [0, 1], whatever the annotation polygon, also one that reaches beyond
\* the tile or the image.
C8_OutputRange ==
    \A n \in DOMAIN out_labels :
        \A k \in 1..Len(out_labels[n]) :
            \A v \in 1..Len(out_labels[n][k].coords) :
                /\ 0 <= out_labels[n][k].coords[v][1]
                /\ out_labels[n][k].coords[v][1] <= 10^Decimals
                /\ 0 <= out_labels[n][k].coords[v][2]
                /\ out_labels[n][k].coords[v][2] <= 10^Decimals

\* A fragment is written of a polygon that reaches beyond its tile and
\* beyond the image
C8_Witness ==
    \E rc \in LabelledCells :
        LET t == CellRect(rc, img_width, img_height)
        IN \E k \in 1..Len(annotations) :
              /\ annotations[k].polygon \cap TilePolygon(t.left, t.top, t.right, t.bottom) # {}
              /\ annotations[k].polygon \cap TilePolygon(0, 0, img_width, img_height)
                    \notin {annotations[k].polygon, {}}
              /\ annotations[k].polygon \cap TilePolygon(0, 0, img_width, img_height)
                    # annotations[k].polygon \cap TilePolygon(t.left, t.top, t.right, t.bottom)
              /\ LabelOf(rc) # <<>>

\* With indices below 10^PadWidth, the name of a tile sorts before the name
\* of the tile that follows it in row-major order, whatever the width of
\* the grid: the next column of its row, or the first column of the next row
NamesFollowRasterOrder ==
    LET limit == 10^PadWidth
        name(r, c) == TileName(<<97>>, r, c, Str_jpg)
    IN \A r \in 0..(limit - 1), c \in 0..(limit - 1) :
          /\ c + 1 < limit => LexLess(name(r, c), name(r, c + 1))
          /\ r + 1 < limit => LexLess(name(r, c), name(r + 1, 0))

Contribution(a, t) ==
    LET g == Intersection(a.polygon, TilePolygon(t.left, t.top, t.right, t.bottom))
        n == IF IsEmpty(g) THEN 0
             ELSE IF GeomType(g) = "Polygon" THEN 1
             ELSE IF GeomType(g) = "MultiPolygon" THEN Len(Geoms(g.area))
             ELSE 0
    IN [k \in 1..n |-> a.class_id]

RECURSIVE Contributions(_, _)
Contributions(annots, t) ==
    IF annots = <<>> THEN <<>>
    ELSE Contribution(Head(annots), t) \o Contributions(Tail(annots), t)

\* C10 (fragment dispatch): in the label file of a tile every record
\* contributes no line when its intersection with the tile is empty, one
\* line when it is a polygon, one line per polygon when it is a
\* multi-polygon, none when it is any other geometry; every line carries
\* the class id of its record, and the lines follow the order of the
\* records.
C10_FragmentDispatch ==
    \A rc \in LabelledCells :
        [k \in 1..Len(LabelOf(rc)) |-> LabelOf(rc)[k].cls_id]
            = Contributions(annotations, CellRect(rc, img_width, img_height))

\* Two records of different classes have been clipped against the tiles of
\* an image: one intersection is a multi-polygon, one a polygon, one a line
\* or a collection
C10_Witness ==
    /\ epc = "return"
    /\ Len(annotations) = 2
    /\ annotations[1].class_id # annotations[2].class_id
    /\ LET types == {GeomType(Intersection(annotations[k].polygon,
                         TilePolygon(CellRect(rc, img_width, img_height).left,
                                     CellRect(rc, img_width, img_height).top,
                                     CellRect(rc, img_width, img_height).right,
                                     CellRect(rc, img_width, img_height).bottom))) :
                        k \in 1..2, rc \in LabelledCells}
       IN /\ "MultiPolygon" \in types
          /\ "Polygon" \in types
          /\ types \cap {"LineString", "GeometryCollection"} # {}

\* The polygon of the record each line of the label file of the rectangle t
\* comes from, line by line
RECURSIVE LineSources(_, _)
LineSources(annots, t) ==
    IF annots = <<>> THEN <<>>
    ELSE [k \in 1..Len(Contribution(Head(annots), t)) |-> Head(annots).polygon]
            \o LineSources(Tail(annots), t)

\* The point (x6, y6), in millionths of a pixel, lies in the closed region S
InClosed(S, x6, y6) ==
    \E c \in S :
        /\ c[1] * 10^Decimals <= x6 /\ x6 <= (c[1] + 1) * 10^Decimals
        /\ c[2] * 10^Decimals <= y6 /\ y6 <= (c[2] + 1) * 10^Decimals

\* A written vertex w of the rectangle t mapped back to absolute
\* coordinates, in millionths of a pixel: w * (actual extent) + (left, top)
Denormalized(w, t) ==
    <<w[1] * (t.right - t.left) + t.left * 10^Decimals,
      w[2] * (t.bottom - t.top) + t.top * 10^Decimals>>

\* C11 (containment), as claimed: every vertex written to the label file of
\* a tile, multiplied by the actual extent of the tile and shifted back by
\* (left, top), lies in the closed original polygon and in the closed tile
\* rectangle.
C11_ContainmentExact ==
    \A rc \in LabelledCells :
        LET t == CellRect(rc, img_width, img_height)
            src == LineSources(annotations, t)
        IN \A k \in 1..Len(LabelOf(rc)) :
              \A v \in 1..Len(LabelOf(rc)[k].coords) :
                 LET p == Denormalized(LabelOf(rc)[k].coords[v], t)
                 IN /\ k <= Len(src)
                    /\ InClosed(src[k], p[1], p[2])
                    /\ InClosed(TilePolygon(t.left, t.top, t.right, t.bottom), p[1], p[2])

\* C11 (containment), amended: every vertex written to the label file of a
\* tile, mapped back, lies in the closed tile rectangle, and it is the
\* six-decimal rounding of a point (X, Y) that lies in the closed original
\* polygon and in the closed tile rectangle: it is off that point by at
\* most half a millionth of the tile's extent in each coordinate.
C11_Containment ==
    \A rc \in LabelledCells :
        LET t == CellRect(rc, img_width, img_height)
            src == LineSources(annotations, t)
        IN \A k \in 1..Len(LabelOf(rc)) :
              \A v \in 1..Len(LabelOf(rc)[k].coords) :
                 LET w == LabelOf(rc)[k].coords[v]
                     p == Denormalized(w, t)
                 IN /\ k <= Len(src)
                    /\ InClosed(TilePolygon(t.left, t.top, t.right, t.bottom), p[1], p[2])
                    /\ \E X \in t.left..t.right, Y \in t.top..t.bottom :
                          /\ IsRounded(w[1], X - t.left, t.right - t.left)
                          /\ IsRounded(w[2], Y - t.top, t.bottom - t.top)
                          /\ PointIn(src[k], <<X, Y>>)

\* A vertex is written whose quotient has no exact six-decimal form (a
\* third of the tile's width), in a tile that does not start at the origin
\* of the image or beside one that does
C11_Witness ==
    /\ epc = "return"
    /\ row_count * col_count > 1
    /\ \E rc \in LabelledCells :
          \E k \in 1..Len(LabelOf(rc)) :
             \E v \in 1..Len(LabelOf(rc)[k].coords) :
                (LabelOf(rc)[k].coords[v][1]
                    * (CellRect(rc, img_width, img_height).right
                          - CellRect(rc, img_width, img_height).left)) % 10^Decimals # 0

\* The grid cells of the current image whose rectangle shares area with the
\* polygon S
Touched(S) ==
    {rc \in GridCells(img_width, img_height) :
        LET t == CellRect(rc, img_width, img_height)
        IN S \cap TilePolygon(t.left, t.top, t.right, t.bottom) # {}}

\* Two grid cells that share a side
Adjacent(rc1, rc2) ==
    \/ rc1[1] = rc2[1] /\ (rc1[2] - rc2[2]) \in {-1, 1}
    \/ rc1[2] = rc2[2] /\ (rc1[1] - rc2[1]) \in {-1, 1}

\* The pixel offset a written coordinate of w millionths stands for in a
\* tile of extent ext: the nearest integer to w * ext
Unround(w, ext) == (2 * w * ext + 10^Decimals) \div (2 * 10^Decimals)

\* The region, in absolute coordinates, that a written line describes in
\* the tile of rectangle t
LineRegion(line, t) ==
    Polygon([v \in 1..Len(line.coords) |->
                <<t.left + Unround(line.coords[v][1], t.right - t.left),
                  t.top + Unround(line.coords[v][2], t.bottom - t.top)>>])

\* The region described by the lines written for record i in cell rc
WrittenRegion(i, rc) ==
    LET t == CellRect(rc, img_width, img_height)
        before == Len(Contributions(SubSeq(annotations, 1, i - 1), t))
        count == Len(Contribution(annotations[i], t))
    IN UNION {LineRegion(LabelOf(rc)[k], t) :
                 k \in {j \in (before + 1)..(before + count) : j <= Len(LabelOf(rc))}}

\* C12 (conservation across a boundary), as claimed: when an image has been
\* tiled, for every record whose polygon shares area with exactly two
\* tiles, and these share a side, the union of the regions described by
\* the lines written for it in the two label files equals the part of the
\* polygon inside the two tile rectangles.
C12_Conservation ==
    epc = "return" =>
        \A i \in 1..Len(annotations) :
            LET T == Touched(annotations[i].polygon)
            IN (Cardinality(T) = 2 /\ \A rc1, rc2 \in T : rc1 = rc2 \/ Adjacent(rc1, rc2)) =>
                  UNION {WrittenRegion(i, rc) : rc \in T}
                     = annotations[i].polygon \cap
                          UNION {TilePolygon(CellRect(rc, img_width, img_height).left,
                                             CellRect(rc, img_width, img_height).top,
                                             CellRect(rc, img_width, img_height).right,
                                             CellRect(rc, img_width, img_height).bottom) : rc \in T}


----------------------------------------------------------------------------
(* Two workers of an external driver, each running
   split_image_and_annotations on its own image, same output_dir *)

WorkerIds == {1, 2}

\* The image each worker is given
WorkerImage == <<Name_a_png, Name_b_JPG>>

\* The frame of a call that has not started; `written` records the output
\* files the call has written so far
NewFrame(path) ==
    [epc |-> "idle", image_path |-> path, img_width |-> 0, img_height |-> 0,
     base_name |-> <<>>, line_no |-> 0, annotations |-> <<>>,
     row_count |-> 0, col_count |-> 0, row_idx |-> 0, col_idx |-> 0,
     exception |-> "none", written |-> {}]

\* Two 2 x 1 images, each with one of the batch label files or none, cut
\* into tiles of height 1; no call of split_images_in_folder is running
InitParallel ==
    /\ tile_width \in {1, 2}
    /\ tile_height = 1
    /\ LET names == {WorkerImage[w] : w \in WorkerIds}
           bases == {SplitExt(n) : n \in names}
       IN \E labelled \in SUBSET bases :
             \E labels \in [labelled -> BatchFiles(2, 1)] :
                input_dir = [hasImages |-> TRUE, hasLabels |-> TRUE,
                             images |-> [n \in names |-> <<2, 1>>],
                             labels |-> labels]
    /\ pc = "parallel"
    /\ all_images = <<>>
    /\ img_idx = 0
    /\ epc = "idle"
    /\ image_path = <<>>
    /\ img_width = 0
    /\ img_height = 0
    /\ base_name = <<>>
    /\ line_no = 0
    /\ annotations = <<>>
    /\ row_count = 0
    /\ col_count = 0
    /\ row_idx = 0
    /\ col_idx = 0
    /\ exception = "none"
    /\ out_dirs = {}
    /\ out_images = [n \in {} |-> <<>>]
    /\ out_labels = [n \in {} |-> <<>>]
    /\ workers = [w \in WorkerIds |-> NewFrame(WorkerImage[w])]

driverVars == <<pc, all_images, img_idx, engineVars, exception>>

\* splitter.py:26-30: os.makedirs(..., exist_ok=True), twice
WorkerMakeDirs(w) ==
    /\ workers[w].epc = "idle"
    /\ out_dirs' = out_dirs \cup {"output_dir", "output_dir/images", "output_dir/labels"}
    /\ workers' = [workers EXCEPT ![w].epc = "load"]
    /\ UNCHANGED <<argVars, driverVars, out_images, out_labels>>

\* splitter.py:32-40: the image, its size, base_name, the empty list
WorkerLoad(w) ==
    /\ workers[w].epc = "load"
    /\ workers' = [workers EXCEPT ![w] =
                      [@ EXCEPT !.img_width = input_dir.images[workers[w].image_path][1],
                                !.img_height = input_dir.images[workers[w].image_path][2],
                                !.base_name = SplitExt(workers[w].image_path),
                                !.annotations = <<>>,
                                !.line_no = 1,
                                !.epc = "open"]]
    /\ UNCHANGED <<argVars, driverVars, outVars>>

\* splitter.py:41-42, 66-68: open(label_path)
WorkerOpenLabel(w) ==
    /\ workers[w].epc = "open"
    /\ LET next == OpenLabelNext(workers[w].base_name \in DOMAIN input_dir.labels)
       IN workers' = [workers EXCEPT ![w] =
                         IF next \in {"parse", "grid"}
                         THEN [@ EXCEPT !.epc = next]
                         ELSE [@ EXCEPT !.epc = "raised", !.exception = next]]
    /\ UNCHANGED <<argVars, driverVars, outVars>>

\* splitter.py:43-65: one line of the label file
WorkerParseLine(w) ==
    /\ workers[w].epc = "parse"
    /\ workers[w].line_no <= Len(input_dir.labels[workers[w].base_name])
    /\ LET f == workers[w]
           items == input_dir.labels[f.base_name][f.line_no]
           outcome == ParseOutcome(items)
       IN workers' = [workers EXCEPT ![w] =
             CASE outcome = "skip" -> [f EXCEPT !.line_no = f.line_no + 1]
               [] outcome = "record" ->
                     [f EXCEPT !.annotations =
                                  Append(f.annotations,
                                         ParseRecord(items, f.img_width, f.img_height)),
                               !.line_no = f.line_no + 1]
               [] OTHER -> [f EXCEPT !.epc = "raised", !.exception = outcome]]
    /\ UNCHANGED <<argVars, driverVars, outVars>>

\* The end of the label file
WorkerEndParse(w) ==
    /\ workers[w].epc = "parse"
    /\ workers[w].line_no > Len(input_dir.labels[workers[w].base_name])
    /\ workers' = [workers EXCEPT ![w].epc = "grid"]
    /\ UNCHANGED <<argVars, driverVars, outVars>>

\* splitter.py:70-75: the grid and the first cell
WorkerGenerateTiles(w) ==
    /\ workers[w].epc = "grid"
    /\ LET f == workers[w]
           rows == Ceil(f.img_height, tile_height)
           cols == Ceil(f.img_width, tile_width)
       IN workers' = [workers EXCEPT ![w] =
                         [f EXCEPT !.row_count = rows, !.col_count = cols,
                                   !.row_idx = 0, !.col_idx = 0,
                                   !.epc = IF rows = 0 \/ cols = 0 THEN "return" ELSE "image"]]
    /\ UNCHANGED <<argVars, driverVars, outVars>>

\* The tile of the current cell of worker w and what it keeps of its
\* annotations
WorkerTile(w) ==
    TileRect(workers[w].row_idx, workers[w].col_idx, tile_width, tile_height,
             workers[w].img_width, workers[w].img_height)
WorkerClipped(w) == ClippedAnnotations(workers[w].annotations, WorkerTile(w))

\* splitter.py:76-116: crop the tile, clip the annotations, save the image
WorkerSaveTileImage(w) ==
    /\ workers[w].epc = "image"
    /\ LET f == workers[w]
           name == TileName(f.base_name, f.row_idx, f.col_idx, Str_jpg)
           t == WorkerTile(w)
       IN IF SavesTile(WorkerClipped(w))
          THEN /\ out_images' = (name :> [image |-> f.image_path,
                                          box |-> <<t.left, t.top, t.right, t.bottom>>])
                                   @@ out_images
               /\ workers' = [workers EXCEPT ![w] =
                                 [f EXCEPT !.epc = "label",
                                           !.written = f.written \cup {<<"images", name>>}]]
          ELSE /\ UNCHANGED out_images
               /\ workers' = [workers EXCEPT ![w].epc = "label"]
    /\ UNCHANGED <<argVars, driverVars, out_dirs, out_labels>>

\* splitter.py:118-127 and the step of the loops of 74-75: write the label
\* file of the tile, go to the next cell
WorkerWriteTileLabel(w) ==
    /\ workers[w].epc = "label"
    /\ LET f == workers[w]
           name == TileName(f.base_name, f.row_idx, f.col_idx, Str_txt)
           saves == SavesTile(WorkerClipped(w))
           wr == IF saves THEN f.written \cup {<<"labels", name>>} ELSE f.written
       IN /\ out_labels' = IF saves
                           THEN (name :> LabelLines(WorkerClipped(w), WorkerTile(w)))
                                   @@ out_labels
                           ELSE out_labels
          /\ workers' = [workers EXCEPT ![w] =
                IF f.col_idx + 1 < f.col_count
                THEN [f EXCEPT !.col_idx = f.col_idx + 1, !.epc = "image", !.written = wr]
                ELSE IF f.row_idx + 1 < f.row_count
                THEN [f EXCEPT !.col_idx = 0, !.row_idx = f.row_idx + 1,
                               !.epc = "image", !.written = wr]
                ELSE [f EXCEPT !.epc = "return", !.written = wr]]
    /\ UNCHANGED <<argVars, driverVars, out_dirs, out_images>>

NextParallel ==
    \/ \E w \in WorkerIds : WorkerMakeDirs(w)
    \/ \E w \in WorkerIds : WorkerLoad(w)
    \/ \E w \in WorkerIds : WorkerOpenLabel(w)
    \/ \E w \in WorkerIds : WorkerParseLine(w)
    \/ \E w \in WorkerIds : WorkerEndParse(w)
    \/ \E w \in WorkerIds : WorkerGenerateTiles(w)
    \/ \E w \in WorkerIds : WorkerSaveTileImage(w)
    \/ \E w \in WorkerIds : WorkerWriteTileLabel(w)

SpecParallel == InitParallel /\ [][NextParallel]_vars

\* The records of the first n lines of a label file of a W x H image, none
\* of which raises: one per line of at least MinItems tokens
RECURSIVE ParsedPrefix(_, _, _, _)
ParsedPrefix(lines, n, W, H) ==
    IF n = 0 THEN <<>>
    ELSE IF ParseOutcome(lines[n]) = "record"
    THEN Append(ParsedPrefix(lines, n - 1, W, H), ParseRecord(lines[n], W, H))
    ELSE ParsedPrefix(lines, n - 1, W, H)

\* The lines of the label file of the image file `name` (none without file)
OwnLines(name) ==
    IF SplitExt(name) \in DOMAIN input_dir.labels
    THEN input_dir.labels[SplitExt(name)] ELSE <<>>

\* A call on the image file `name` alone ends with an exception
CallRaises(name) ==
    \E k \in 1..Len(OwnLines(name)) : ParseOutcome(OwnLines(name)[k]) \notin {"skip", "record"}

\* The tile images and the label files that one call on the image file
\* `name` alone leaves in an empty output directory
CallImages(name) ==
    LET W == input_dir.images[name][1]
        H == input_dir.images[name][2]
        cells == IF CallRaises(name) THEN {} ELSE GridCells(W, H)
        cellOf(f) == CHOOSE rc \in cells : CellName(SplitExt(name), rc, Str_jpg) = f
    IN [f \in {CellName(SplitExt(name), rc, Str_jpg) : rc \in cells} |->
           [image |-> name,
            box |-> <<CellRect(cellOf(f), W, H).left, CellRect(cellOf(f), W, H).top,
                      CellRect(cellOf(f), W, H).right, CellRect(cellOf(f), W, H).bottom>>]]

CallLabels(name) ==
    LET W == input_dir.images[name][1]
        H == input_dir.images[name][2]
        cells == IF CallRaises(name) THEN {} ELSE GridCells(W, H)
        cellOf(f) == CHOOSE rc \in cells : CellName(SplitExt(name), rc, Str_txt) = f
        annots == ParsedPrefix(OwnLines(name), Len(OwnLines(name)), W, H)
    IN [f \in {CellName(SplitExt(name), rc, Str_txt) : rc \in cells} |->
           LabelLines(ClippedAnnotations(annots, CellRect(cellOf(f), W, H)),
                      CellRect(cellOf(f), W, H))]

\* C13 (parallel safety): with two workers each running
\* split_image_and_annotations on its own image into one output directory,
\* in every reachable state of every interleaving no output file has been
\* written by both workers; the annotations of each worker are the records
\* of the lines it has parsed of its own label file; and when both calls
\* have ended the output tree is the one left by the two calls run one
\* after the other, in either order.
C13_ParallelSafety ==
    pc = "parallel" =>
        /\ workers[1].written \cap workers[2].written = {}
        /\ \A w \in WorkerIds :
              workers[w].annotations =
                 IF workers[w].epc \in {"idle", "load"} THEN <<>>
                 ELSE ParsedPrefix(OwnLines(WorkerImage[w]), workers[w].line_no - 1,
                                   workers[w].img_width, workers[w].img_height)
        /\ (\A w \in WorkerIds : workers[w].epc \in {"return", "raised"}) =>
              /\ out_images = CallImages(WorkerImage[2]) @@ CallImages(WorkerImage[1])
              /\ out_images = CallImages(WorkerImage[1]) @@ CallImages(WorkerImage[2])
              /\ out_labels = CallLabels(WorkerImage[2]) @@ CallLabels(WorkerImage[1])
              /\ out_labels = CallLabels(WorkerImage[1]) @@ CallLabels(WorkerImage[2])
              /\ out_dirs = {"output_dir", "output_dir/images", "output_dir/labels"}

\* Both workers are between the image and the label of a tile, each has
\* written files already and holds an annotation of its own: their steps
\* were interleaved
C13_Witness ==
    /\ pc = "parallel"
    /\ \A w \in WorkerIds :
          /\ workers[w].epc = "label"
          /\ Cardinality(workers[w].written) > 1
          /\ workers[w].annotations # <<>>

----------------------------------------------------------------------------
(* A folder whose image names differ only in their extension *)

Name_a_jpg == <<97>> \o Str_jpg

\* images/ holds a.jpg and a.png, each one or two pixels wide, and labels/
\* holds a.txt with one of the batch label files, or nothing; 1 x 1 tiles
InitAlias ==
    /\ tile_width = 1
    /\ tile_height = 1
    /\ \E W1 \in 1..2, W2 \in 1..2 :
          \E labels \in {NoLabels} \cup
                {(SplitExt(Name_a_jpg) :> f) : f \in BatchFiles(2, 1)} :
             input_dir = [hasImages |-> TRUE, hasLabels |-> TRUE,
                          images |-> (Name_a_jpg :> <<W1, 1>>) @@ (Name_a_png :> <<W2, 1>>),
                          labels |-> labels]
    /\ Idle

SpecAlias == InitAlias /\ [][Next]_vars

\* C14 (no overwrite within a batch), as claimed: when
\* split_images_in_folder has processed every image of the folder, the
\* output names of two different (image file, row, col) differ, and the
\* tile image of every cell of every image is in the output and is the
\* crop of that image.
C14_NoOverwrite ==
    pc = "done" =>
        LET size(n) == input_dir.images[n]
            keys == {<<all_images[k], rc>> :
                        k \in 1..Len(all_images),
                        rc \in (0..(MaxH - 1)) \X (0..(MaxW - 1))}
            cells == {key \in keys : key[2] \in GridCells(size(key[1])[1], size(key[1])[2])}
            out(key) == CellName(SplitExt(key[1]), key[2], Str_jpg)
        IN /\ \A k1, k2 \in cells : k1 # k2 => out(k1) # out(k2)
           /\ \A key \in cells :
                 /\ out(key) \in DOMAIN out_images
                 /\ out_images[out(key)].image = key[1]

----------------------------------------------------------------------------
\* C15 (writer/viewer round trip), as claimed: for every tile label file
\* written for the current image, the viewer, given the same tile_width and
\* tile_height, loads one annotation per written line, and each of its
\* points is the tile-local pixel position the splitter normalized, or one
\* less in a coordinate (integer truncation of a six-decimal quotient).
C15_RoundTrip ==
    \A rc \in LabelledCells :
        LET t == CellRect(rc, img_width, img_height)
            clipped == ClippedAnnotations(annotations, t)
            loaded == load_annotations(LabelOf(rc))
        IN /\ Len(loaded) = Len(clipped)
           /\ \A k \in 1..Len(loaded) :
                 LET ring == ExteriorCoords(clipped[k].polygon)
                 IN /\ loaded[k].class_id = clipped[k].class_id
                    /\ Len(loaded[k].points) = Len(ring)
                    /\ \A v \in 1..Len(ring) :
                          /\ ring[v][1] - 1 <= loaded[k].points[v][1]
                          /\ loaded[k].points[v][1] <= ring[v][1]
                          /\ ring[v][2] - 1 <= loaded[k].points[v][2]
                          /\ loaded[k].points[v][2] <= ring[v][2]

============================================================================
